---- MODULE Spec2Model ----
(***************************************************************************)
(* Real-time statistics core of the product management API:                *)
(*   - StatsCache        (internal/storage/cache)                          *)
(*   - statsUseCase      (internal/business/usecase, stats)                *)
(*   - WebSocketHub      (internal/transport/http)                         *)
(* Every cache method runs wholly under the cache's own RWMutex and calls  *)
(* nothing while holding it, so each cache method is one atomic step.      *)
(* The use case's methods are split at every point where another goroutine *)
(* can run: lock acquisitions, the source fan-out, each cache call.        *)
(* Besides Spec, the whole statistics core, there are specifications of    *)
(* parts on their own:                                                     *)
(*   LoopSpec    the refresh loop of startRefreshLoop                      *)
(*   ReaderSpec  GetCategoryStats and GetWishlistStats over filled caches  *)
(*   ReaderRefreshSpec  the same with the refresh of an empty map          *)
(*   CacheSpec   the StatsCache and a direct caller of its methods         *)
(*   RouteSpec   the gin routes of registerRoutes and their middleware     *)
(*   MigSpec     the migration tool (cmd/migrate)                          *)
(*   StallSpec   the refresh loop and subscribers that stop reading        *)
(*   HangSpec    the refresh loop and a source that does not answer        *)
(*   ShutdownSpec  the refresh loop and the shutdown of main               *)
(*   ListSpec    the StatsCache and a caller's top-products list           *)
(*   ClearSpec   GetStats and a forced invalidation of the cache           *)
(*   LimSpec     the IPRateLimiter of the rate-limit middleware            *)
(*   HubSpec     the WebSocketHub with several subscribers                 *)
(***************************************************************************)
EXTENDS Integers, Sequences, FiniteSets, TLC

\* ---------------------------------------------------------------- bounds
NumConns == 1
NumMigrations == 3
MaxTicks == 2
MaxCycles == 2
RefreshTimeout == 1
TicksPerSecond == 2
NumSubscribers == 2

\* the goroutine of startRefreshLoop (and of the initial refresh), and a goroutine
\* serving HTTP requests one after the other
Scheduler == "sched"
Handlers == {"h1"}
Procs == {Scheduler} \cup Handlers
\* an unlocked mutex
None == "none"
Conns == 1..NumConns
\* the connections of the hub when it is taken on its own
Subscribers == 1..NumSubscribers
Counts == {42}
ZeroTime == 0
StartTime == RefreshTimeout + 1
EndTime == StartTime + MaxTicks

Ops == {"RefreshStats", "GetStats", "GetCategoryStats", "GetWishlistStats", "GetTopProducts"}
CategoryLists == {<<>>, <<[ID |-> 1, Name |-> "Electronics"]>>,
                  <<[ID |-> 2, Name |-> "Books"], [ID |-> 1, Name |-> "Electronics"]>>}
ProductNames == [i \in {1, 2} |-> IF i = 1 THEN "Smartphone X" ELSE "Laptop Pro"]

EmptyMap == [k \in {} |-> 0]
Put(f, k, v) == [x \in (DOMAIN f) \cup {k} |-> IF x = k THEN v ELSE f[x]]
CopyMap(m) == [k \in DOMAIN m |-> m[k]]

\* the count maps a cache can be given: category or product IDs to counts
CountValues == {3, 5}
CountMaps == UNION {[S -> CountValues] : S \in SUBSET (DOMAIN ProductNames)}

RECURSIVE Perms(_)
Perms(S) == IF S = {} THEN {<<>>}
            ELSE UNION {{<<x>> \o s : s \in Perms(S \ {x})} : x \in S}

\* ------------------------------------------------------------ StatsCache
NewStatsCache == [data |-> EmptyMap, categoryCounts |-> EmptyMap,
                  wishlistCounts |-> EmptyMap, lastRefreshed |-> ZeroTime]

Set(c, key, value, t) == [c EXCEPT !.data = Put(@, key, value), !.lastRefreshed = t]

Exists(c, key) == key \in DOMAIN c.data

\* time.Time.Format(time.RFC3339): whole seconds, the sub-second part is dropped
RFC3339(t) == t \div TicksPerSecond

GetAll(c) == Put(CopyMap(c.data), "last_refreshed", RFC3339(c.lastRefreshed))

SetCategoryCounts(c, counts, t) ==
    [c EXCEPT !.categoryCounts = CopyMap(counts), !.lastRefreshed = t]

GetCategoryCounts(c) == CopyMap(c.categoryCounts)

\* variant: only Set counts as a refresh of the cache
SetWishlistCountsKeepsTime(c, counts, t) ==
    [c EXCEPT !.wishlistCounts = CopyMap(counts)]

SetWishlistCounts(c, counts, t) ==
    [c EXCEPT !.wishlistCounts = CopyMap(counts), !.lastRefreshed = t]

GetWishlistCounts(c) == CopyMap(c.wishlistCounts)

\* value, exists := c.data[key]
Get(c, key) == IF key \in DOMAIN c.data
               THEN [value |-> c.data[key], exists |-> TRUE]
               ELSE [value |-> 0, exists |-> FALSE]

\* variant: Clear leaves lastRefreshed alone
ClearKeepsTime(c, t) ==
    [data |-> EmptyMap, categoryCounts |-> EmptyMap, wishlistCounts |-> EmptyMap,
     lastRefreshed |-> c.lastRefreshed]

Clear(c, t) ==
    [data |-> EmptyMap, categoryCounts |-> EmptyMap, wishlistCounts |-> EmptyMap,
     lastRefreshed |-> t]

GetLastRefreshed(c) == c.lastRefreshed

\* Go maps are references.  Which map of the cache the caller's map is the
\* very same object as, after the call: SetCategoryCounts and
\* SetWishlistCounts store make(...) filled by a loop, the readers return
\* make(...) filled by a loop, so it is none of them.
\* variant: the setter stores its argument
AliasAfterSetShares(field) == field

AliasAfterSet(field) == "none"

AliasOfResult(field) == "none"

\* A slice value is a header over a backing array.  Set stores the value it is
\* given, Get returns the stored value and GetAll copies the entries of data
\* one by one, each value as it is: the caller's slice and the slice under
\* key have the same elements in memory.  The entry the caller's list shares
\* its elements with after Set(key, list), Get(key) or GetAll()
SharedArray(key) == key

\* the key of the top-products list, and the lists a caller may pass
ListKey == "top_products"
TopLists == {<<>>} \cup {<<[ProductID |-> 1, Count |-> c]>> : c \in CountValues}

\* ----------------------------------------------------------------- state
VARIABLES now, cache, writtenBy, lastRefresh, mutex, cycle, clients, hubMu, proc,
          cl, mig, req, stalled, shutdown, prevStats, lim

vars == <<now, cache, writtenBy, lastRefresh, mutex, cycle, clients, hubMu, proc,
          cl, mig, req, stalled, shutdown, prevStats, lim>>

\* the order of the seven cache writes of RefreshStats
WriteOrder == <<"total_products", "total_users", "total_reviews", "average_rating",
                "top_products", "category_counts", "wishlist_counts">>
ScalarKeys == {WriteOrder[i] : i \in 1..5}

\* a direct user of the cache before its first call
NoClient == [op |-> "none", at |-> ZeroTime, res |-> EmptyMap, held |-> EmptyMap,
             from |-> "none", same |-> "none", afterClear |-> FALSE, wrote |-> FALSE,
             list |-> <<>>, listSame |-> "none"]

\* the migration tool is not running, migrations/sql is empty and so is the
\* migrations table.  Migrations are named by their number (001_..., 002_...).
NoMigration == [pc |-> "off", nFiles |-> 0, downFiles |-> {}, applied |-> {},
                schema |-> {}, down |-> FALSE, migrationID |-> 0, todo |-> <<>>,
                log |-> <<>>, before |-> {}, exit |-> "", failed |-> 0]

\* no HTTP request is being served
NoRequest == [pc |-> "off", method |-> "", path |-> <<>>, cred |-> "", role |-> "",
              chain |-> <<>>, i |-> 0, ctxRole |-> "", status |-> 0, reached |-> ""]

\* no call of GetCategoryStats has returned a list yet
NoStats == [valid |-> FALSE, counts |-> EmptyMap, categories |-> <<>>, list |-> <<>>]

\* the goroutines of two HTTP requests at a time, and the client addresses
Requesters == {"r1", "r2"}
ClientIPs == {"10.0.0.1", "10.0.0.2"}

\* a request goroutine that is not in GetLimiter
NoCall == [pc |-> "idle", ip |-> "", limiter |-> 0]

\* NewIPRateLimiter: the map ips is empty.  Limiters are named 1, 2, ... in
\* the order of their creation (made counts them); call holds the locals of
\* the GetLimiter calls in progress and returned, for each address, the
\* limiters that calls for it have returned so far
NewIPRateLimiter == [ips |-> EmptyMap, made |-> 0,
                     call |-> [g \in Requesters |-> NoCall],
                     returned |-> [ip \in ClientIPs |-> {}]]

\* the locals of one call of a use-case method (and of the RefreshStats it makes)
IdleProc == [pc |-> "idle", op |-> "none", ctx |-> "live",
             rsCall |-> 0, cyc |-> 0, nRefresh |-> 0, rsReturned |-> "no",
             wi |-> 0,
             productCount |-> 0, userCount |-> 0, reviewCount |-> 0, avgRating |-> 0,
             categoryCounts |-> EmptyMap, wishlistCounts |-> EmptyMap, topProducts |-> <<>>,
             productCountErr |-> "nil", userCountErr |-> "nil", reviewCountErr |-> "nil",
             avgRatingErr |-> "nil", categoryCountsErr |-> "nil",
             wishlistCountsErr |-> "nil", topProductsErr |-> "nil",
             retErr |-> "nil", before |-> NewStatsCache,
             todo |-> {}, sent |-> EmptyMap, writeErrs |-> 0, published |-> 0,
             checkTime |-> 0, lrAtCheck |-> 0, needsRefresh |-> FALSE, servedAt |-> 0,
             counts |-> EmptyMap, readCycles |-> {},
             categories |-> <<>>, categoriesErr |-> "nil",
             gw |-> EmptyMap, hdr |-> EmptyMap, mu |-> 0, stats |-> <<>>, found |-> {},
             err |-> "nil", resNil |-> TRUE, resAll |-> EmptyMap, resList |-> <<>>]

Init ==
    /\ now = StartTime
    /\ cache = NewStatsCache
    /\ writtenBy = [k \in {} |-> 0]
    /\ lastRefresh = ZeroTime
    /\ mutex = None
    /\ cycle = 0
    /\ clients = {}
    /\ hubMu = None
    /\ proc = [p \in Procs |-> IdleProc]
    /\ cl = NoClient
    /\ mig = NoMigration
    /\ req = NoRequest
    /\ stalled = {}
    /\ shutdown = FALSE
    /\ prevStats = NoStats
    /\ lim = NewIPRateLimiter

\* ------------------------------------------------------------- the clock
Tick ==
    /\ now < EndTime
    /\ now' = now + 1
    /\ UNCHANGED <<cache, writtenBy, lastRefresh, mutex, cycle, clients, hubMu, proc>>
    /\ UNCHANGED <<cl, mig, req, stalled, shutdown, prevStats, lim>>


\* ------------------------------------------------- callers and contexts
Entry(o) == CASE o = "GetStats" -> "gs_check"
              [] o = "GetCategoryStats" -> "gc_read"
              [] o = "GetWishlistStats" -> "gw_read"
              [] o = "GetTopProducts" -> "tp_get"
              [] OTHER -> "rs_lock"

\* a call of uc.RefreshStats(ctx): the caller is now waiting for uc.mutex
EnterRefresh(r) == [r EXCEPT !.pc = "rs_lock", !.rsCall = now, !.nRefresh = @ + 1]

\* a handler, the scheduler tick or the initial refresh calls a use-case method
Call(p) ==
    /\ proc[p].pc = "idle"
    /\ \E o \in (IF p = Scheduler THEN {"RefreshStats"} ELSE Ops) :
         proc' = [proc EXCEPT ![p] =
                    IF o = "RefreshStats" THEN EnterRefresh([IdleProc EXCEPT !.op = o])
                    ELSE [IdleProc EXCEPT !.op = o, !.pc = Entry(o)]]
    /\ UNCHANGED <<now, cache, writtenBy, lastRefresh, mutex, cycle, clients, hubMu>>
    /\ UNCHANGED <<cl, mig, req, stalled, shutdown, prevStats, lim>>

\* the request context is cancelled while its RefreshStats runs (client gone);
\* the scheduler passes context.Background(), which is never cancelled
InRefresh == {"rs_lock", "rs_fan", "rs_wait", "rs_fail", "rs_set", "rs_time", "rs_bcast",
              "rs_bwrite", "rs_ret"}

Cancel(p) ==
    /\ p \in Handlers
    /\ proc[p].pc \in InRefresh
    /\ proc[p].ctx = "live"
    /\ proc' = [proc EXCEPT ![p].ctx = "cancelled"]
    /\ UNCHANGED <<now, cache, writtenBy, lastRefresh, mutex, cycle, clients, hubMu>>
    /\ UNCHANGED <<cl, mig, req, stalled, shutdown, prevStats, lim>>

\* variant: the refresh loop returns when RefreshStats gave an error
FinishBreaksLoop(p) ==
    /\ proc[p].pc = "ret"
    /\ proc' = [proc EXCEPT ![p] =
                  IF p = Scheduler /\ proc[p].err # "nil"
                  THEN [IdleProc EXCEPT !.pc = "stopped"] ELSE IdleProc]
    /\ UNCHANGED <<now, cache, writtenBy, lastRefresh, mutex, cycle, clients, hubMu>>
    /\ UNCHANGED <<cl, mig, req, stalled, shutdown, prevStats, lim>>

\* the caller has its result; its locals go away.  For the refresh loop: the
\* error, if any, is logged and the loop waits for the next tick
Finish(p) ==
    /\ proc[p].pc = "ret"
    /\ proc' = [proc EXCEPT ![p] = IdleProc]
    /\ UNCHANGED <<now, cache, writtenBy, lastRefresh, mutex, cycle, clients, hubMu>>
    /\ UNCHANGED <<cl, mig, req, stalled, shutdown, prevStats, lim>>

\* ---------------------------------------------- statsUseCase.RefreshStats
\* what is left of a call when its RefreshStats has returned: the locals of
\* RefreshStats are gone, the caller goes on with the returned error
Caller(r) == [IdleProc EXCEPT !.op = r.op, !.ctx = r.ctx, !.rsCall = r.rsCall,
                              !.nRefresh = r.nRefresh, !.checkTime = r.checkTime,
                              !.lrAtCheck = r.lrAtCheck, !.needsRefresh = r.needsRefresh]

AfterRefresh(r) ==
    IF r.retErr # "nil"
    THEN [Caller(r) EXCEPT !.pc = "ret", !.rsReturned = "err", !.err = r.retErr,
                           !.resNil = TRUE]
    ELSE [Caller(r) EXCEPT !.rsReturned = "ok",
                   !.pc = CASE r.op = "GetStats" -> "gs_getall"
                            [] r.op = "GetCategoryStats" -> "gc_reread"
                            [] r.op = "GetWishlistStats" -> "gw_reread"
                            [] r.op = "GetTopProducts" -> "tp_get2"
                            [] OTHER -> "ret"]

\* variant: Lock without mutual exclusion
RSLockNoMutex(p) ==
    /\ proc[p].pc = "rs_lock"
    /\ cycle < MaxCycles
    /\ mutex' = p
    /\ cycle' = cycle + 1
    /\ proc' = [proc EXCEPT ![p].pc = "rs_fan", ![p].cyc = cycle + 1,
                            ![p].before = cache]
    /\ UNCHANGED <<now, cache, writtenBy, lastRefresh, clients, hubMu>>
    /\ UNCHANGED <<cl, mig, req, stalled, shutdown, prevStats, lim>>

\* variant: TryLock, and a caller that finds a refresh in progress returns nil
RSLockSkipsWhenBusy(p) ==
    /\ proc[p].pc = "rs_lock"
    /\ cycle < MaxCycles
    /\ IF mutex = None
       THEN /\ mutex' = p
            /\ cycle' = cycle + 1
            /\ proc' = [proc EXCEPT ![p].pc = "rs_fan", ![p].cyc = cycle + 1,
                                    ![p].before = cache]
       ELSE /\ proc' = [proc EXCEPT ![p] = AfterRefresh(@)]
            /\ UNCHANGED <<mutex, cycle>>
    /\ UNCHANGED <<now, cache, writtenBy, lastRefresh, clients, hubMu>>
    /\ UNCHANGED <<cl, mig, req, stalled, shutdown, prevStats, lim>>

\* uc.mutex.Lock()
RSLock(p) ==
    /\ proc[p].pc = "rs_lock"
    /\ mutex = None
    /\ cycle < MaxCycles
    /\ mutex' = p
    /\ cycle' = cycle + 1
    /\ proc' = [proc EXCEPT ![p].pc = "rs_fan", ![p].cyc = cycle + 1,
                            ![p].before = cache]
    /\ UNCHANGED <<now, cache, writtenBy, lastRefresh, clients, hubMu>>
    /\ UNCHANGED <<cl, mig, req, stalled, shutdown, prevStats, lim>>

\* productRepo.List(ctx, {Page: 1, PageSize: 1}): a count, or an error with count 0
ListOutcomes == {[count |-> c, err |-> "nil"] : c \in Counts}
                    \cup {[count |-> 0, err |-> "ErrSource"]}

\* the four goroutines of the fan-out, up to their wg.Done(): the product count
\* from productRepo.List, and the three sources that are not implemented yet
\* and produce the empty map or list.  They write only their own captured
\* locals, which nothing reads before wg.Wait(), so they are taken as one step.
RSFanOut(p) ==
    /\ proc[p].pc = "rs_fan"
    /\ \E res \in ListOutcomes :
         proc' = [proc EXCEPT ![p].pc = "rs_wait",
                              ![p].productCount = res.count,
                              ![p].productCountErr = res.err,
                              ![p].categoryCounts = EmptyMap,
                              ![p].categoryCountsErr = "nil",
                              ![p].wishlistCounts = EmptyMap,
                              ![p].wishlistCountsErr = "nil",
                              ![p].topProducts = <<>>,
                              ![p].topProductsErr = "nil"]
    /\ UNCHANGED <<now, cache, writtenBy, lastRefresh, mutex, cycle, clients, hubMu>>
    /\ UNCHANGED <<cl, mig, req, stalled, shutdown, prevStats, lim>>

\* productRepo.List does not return on its own.  The refresh loop and the
\* initial refresh pass context.Background(), RefreshStats sets no deadline
\* on the ctx it hands on and wg.Wait() has no timeout: nothing ends the wait
RSSourceHangs(p) ==
    /\ p = Scheduler
    /\ proc[p].pc = "rs_fan"
    /\ proc' = [proc EXCEPT ![p].pc = "rs_hung"]
    /\ UNCHANGED <<now, cache, writtenBy, lastRefresh, mutex, cycle, clients, hubMu>>
    /\ UNCHANGED <<cl, mig, req, stalled, shutdown, prevStats, lim>>

\* variant: the check of productCountErr is missing from the chain
FirstErrSkipsProduct(r) ==
    IF r.userCountErr # "nil" THEN r.userCountErr
    ELSE IF r.reviewCountErr # "nil" THEN r.reviewCountErr
    ELSE IF r.avgRatingErr # "nil" THEN r.avgRatingErr
    ELSE IF r.categoryCountsErr # "nil" THEN r.categoryCountsErr
    ELSE IF r.wishlistCountsErr # "nil" THEN r.wishlistCountsErr
    ELSE r.topProductsErr

\* the chain of "if xErr != nil { return xErr }"
FirstErr(r) ==
    IF r.productCountErr # "nil" THEN r.productCountErr
    ELSE IF r.userCountErr # "nil" THEN r.userCountErr
    ELSE IF r.reviewCountErr # "nil" THEN r.reviewCountErr
    ELSE IF r.avgRatingErr # "nil" THEN r.avgRatingErr
    ELSE IF r.categoryCountsErr # "nil" THEN r.categoryCountsErr
    ELSE IF r.wishlistCountsErr # "nil" THEN r.wishlistCountsErr
    ELSE r.topProductsErr

\* variant: a failed cycle skips the writes but still tells the subscribers
RSJoinNotifiesOnFailure(p) ==
    /\ proc[p].pc = "rs_wait"
    /\ proc' = [proc EXCEPT ![p] =
                  IF FirstErr(@) # "nil"
                  THEN [@ EXCEPT !.pc = "rs_bcast", !.retErr = FirstErr(proc[p])]
                  ELSE [@ EXCEPT !.pc = "rs_set", !.wi = 1]]
    /\ UNCHANGED <<now, cache, writtenBy, lastRefresh, mutex, cycle, clients, hubMu>>
    /\ UNCHANGED <<cl, mig, req, stalled, shutdown, prevStats, lim>>

\* wg.Wait() and the error checks
RSJoin(p) ==
    /\ proc[p].pc = "rs_wait"
    /\ proc' = [proc EXCEPT ![p] =
                  IF FirstErr(@) # "nil"
                  THEN [@ EXCEPT !.pc = "rs_fail", !.retErr = FirstErr(proc[p])]
                  ELSE [@ EXCEPT !.pc = "rs_set", !.wi = 1]]
    /\ UNCHANGED <<now, cache, writtenBy, lastRefresh, mutex, cycle, clients, hubMu>>
    /\ UNCHANGED <<cl, mig, req, stalled, shutdown, prevStats, lim>>

\* variant: total_products and total_users take each other's value
CycleValueSwapped(r, key) ==
    CASE key = "total_products" -> r.userCount
      [] key = "total_users" -> r.productCount
      [] key = "total_reviews" -> r.reviewCount
      [] key = "average_rating" -> r.avgRating
      [] OTHER -> r.topProducts

\* the value RefreshStats stores under each scalar key
CycleValue(r, key) ==
    CASE key = "total_products" -> r.productCount
      [] key = "total_users" -> r.userCount
      [] key = "total_reviews" -> r.reviewCount
      [] key = "average_rating" -> r.avgRating
      [] OTHER -> r.topProducts

\* variant: the writes stop with ctx.Err() once the context is cancelled
RSSetChecksCtx(p) ==
    /\ proc[p].pc = "rs_set"
    /\ LET r == proc[p]
           k == WriteOrder[r.wi]
       IN IF r.ctx = "cancelled"
          THEN /\ proc' = [proc EXCEPT ![p].pc = "rs_fail", ![p].retErr = "ErrCanceled"]
               /\ UNCHANGED <<cache, writtenBy>>
          ELSE /\ cache' = IF r.wi <= 5 THEN Set(cache, k, CycleValue(r, k), now)
                           ELSE IF r.wi = 6
                                THEN SetCategoryCounts(cache, r.categoryCounts, now)
                                ELSE SetWishlistCounts(cache, r.wishlistCounts, now)
               /\ writtenBy' = Put(writtenBy, k, r.cyc)
               /\ proc' = [proc EXCEPT ![p] =
                             IF r.wi = 7 THEN [@ EXCEPT !.pc = "rs_time"]
                             ELSE [@ EXCEPT !.wi = r.wi + 1]]
    /\ UNCHANGED <<now, lastRefresh, mutex, cycle, clients, hubMu>>
    /\ UNCHANGED <<cl, mig, req, stalled, shutdown, prevStats, lim>>

\* one of the seven cache calls, each under the cache's lock only
RSSet(p) ==
    /\ proc[p].pc = "rs_set"
    /\ LET r == proc[p]
           k == WriteOrder[r.wi]
       IN /\ cache' = IF r.wi <= 5 THEN Set(cache, k, CycleValue(r, k), now)
                      ELSE IF r.wi = 6 THEN SetCategoryCounts(cache, r.categoryCounts, now)
                      ELSE SetWishlistCounts(cache, r.wishlistCounts, now)
          /\ writtenBy' = Put(writtenBy, k, r.cyc)
          /\ proc' = [proc EXCEPT ![p] =
                        IF r.wi = 7 THEN [@ EXCEPT !.pc = "rs_time"]
                        ELSE [@ EXCEPT !.wi = r.wi + 1]]
    /\ UNCHANGED <<now, lastRefresh, mutex, cycle, clients, hubMu>>
    /\ UNCHANGED <<cl, mig, req, stalled, shutdown, prevStats, lim>>

\* uc.lastRefresh = time.Now()
RSTime(p) ==
    /\ proc[p].pc = "rs_time"
    /\ lastRefresh' = now
    /\ proc' = [proc EXCEPT ![p].pc = "rs_bcast"]
    /\ UNCHANGED <<now, cache, writtenBy, mutex, cycle, clients, hubMu>>
    /\ UNCHANGED <<cl, mig, req, stalled, shutdown, prevStats, lim>>

\* return (nil or the first error); the deferred uc.mutex.Unlock() runs
RSReturn(p) ==
    /\ proc[p].pc \in {"rs_fail", "rs_ret"}
    /\ mutex' = None
    /\ proc' = [proc EXCEPT ![p] = AfterRefresh(@)]
    /\ UNCHANGED <<now, cache, writtenBy, lastRefresh, cycle, clients, hubMu>>
    /\ UNCHANGED <<cl, mig, req, stalled, shutdown, prevStats, lim>>

\* ------------------------------------------------------------ WebSocketHub
\* HandleWS: a successful upgrade registers the connection
HandleWS(c) ==
    /\ c \notin clients
    /\ hubMu = None
    /\ clients' = clients \cup {c}
    /\ UNCHANGED <<now, cache, writtenBy, lastRefresh, mutex, cycle, hubMu, proc>>
    /\ UNCHANGED <<cl, mig, req, stalled, shutdown, prevStats, lim>>

\* the reader goroutine of HandleWS sees an error and removes the connection
Disconnect(c) ==
    /\ c \in clients
    /\ hubMu = None
    /\ clients' = clients \ {c}
    /\ stalled' = stalled \ {c}
    /\ UNCHANGED <<now, cache, writtenBy, lastRefresh, mutex, cycle, hubMu, proc>>
    /\ UNCHANGED <<cl, mig, req, shutdown, prevStats, lim>>

\* the peer of a registered connection stops reading.  Once its buffers are
\* full a WriteMessage to it does not return: the hub sets no write deadline
PeerStalls(c) ==
    /\ c \in clients
    /\ c \notin stalled
    /\ stalled' = stalled \cup {c}
    /\ UNCHANGED <<now, cache, writtenBy, lastRefresh, mutex, cycle, clients, hubMu, proc>>
    /\ UNCHANGED <<cl, mig, req, shutdown, prevStats, lim>>

\* Broadcast: hub.mu.Lock()
BroadcastLock(p) ==
    /\ proc[p].pc = "rs_bcast"
    /\ hubMu = None
    /\ hubMu' = p
    /\ proc' = [proc EXCEPT ![p].pc = "rs_bwrite", ![p].todo = clients,
                            ![p].published = @ + 1]
    /\ UNCHANGED <<now, cache, writtenBy, lastRefresh, mutex, cycle, clients>>
    /\ UNCHANGED <<cl, mig, req, stalled, shutdown, prevStats, lim>>

\* variant: the error of a failed write becomes the error of the refresh
BroadcastWriteFailsRefresh(p) ==
    /\ proc[p].pc = "rs_bwrite"
    /\ \E c \in proc[p].todo \ stalled : \E ok \in BOOLEAN :
         proc' = [proc EXCEPT ![p].todo = @ \ {c},
                              ![p].sent = Put(@, c, IF c \in DOMAIN @ THEN @[c] + 1 ELSE 1),
                              ![p].writeErrs = IF ok THEN @ ELSE @ + 1,
                              ![p].retErr = IF ok THEN @ ELSE "ErrWrite"]
    /\ UNCHANGED <<now, cache, writtenBy, lastRefresh, mutex, cycle, clients, hubMu>>
    /\ UNCHANGED <<cl, mig, req, stalled, shutdown, prevStats, lim>>

\* variant: Broadcast returns at the first write that fails
BroadcastWriteStopsOnError(p) ==
    /\ proc[p].pc = "rs_bwrite"
    /\ \E c \in proc[p].todo \ stalled : \E ok \in BOOLEAN :
         proc' = [proc EXCEPT ![p].todo = IF ok THEN @ \ {c} ELSE {},
                              ![p].sent = Put(@, c, IF c \in DOMAIN @ THEN @[c] + 1 ELSE 1),
                              ![p].writeErrs = IF ok THEN @ ELSE @ + 1]
    /\ UNCHANGED <<now, cache, writtenBy, lastRefresh, mutex, cycle, clients, hubMu>>
    /\ UNCHANGED <<cl, mig, req, stalled, shutdown, prevStats, lim>>

\* one turn of the range loop: conn.WriteMessage(...) returns and the
\* returned error is dropped.  sent counts the writes to each connection
BroadcastWrite(p) ==
    /\ proc[p].pc = "rs_bwrite"
    /\ \E c \in proc[p].todo \ stalled : \E ok \in BOOLEAN :
         proc' = [proc EXCEPT ![p].todo = @ \ {c},
                              ![p].sent = Put(@, c, IF c \in DOMAIN @ THEN @[c] + 1 ELSE 1),
                              ![p].writeErrs = IF ok THEN @ ELSE @ + 1]
    /\ UNCHANGED <<now, cache, writtenBy, lastRefresh, mutex, cycle, clients, hubMu>>
    /\ UNCHANGED <<cl, mig, req, stalled, shutdown, prevStats, lim>>

\* the range loop comes to a connection whose peer has stalled: WriteMessage
\* does not return, and Broadcast, called by RefreshStats itself, neither
BroadcastBlocks(p) ==
    /\ proc[p].pc = "rs_bwrite"
    /\ proc[p].todo \cap stalled # {}
    /\ proc' = [proc EXCEPT ![p].pc = "rs_blocked"]
    /\ UNCHANGED <<now, cache, writtenBy, lastRefresh, mutex, cycle, clients, hubMu>>
    /\ UNCHANGED <<cl, mig, req, stalled, shutdown, prevStats, lim>>

\* end of the range loop; the deferred hub.mu.Unlock() runs
BroadcastUnlock(p) ==
    /\ proc[p].pc = "rs_bwrite"
    /\ proc[p].todo = {}
    /\ hubMu' = None
    /\ proc' = [proc EXCEPT ![p].pc = "rs_ret", ![p].sent = EmptyMap]
    /\ UNCHANGED <<now, cache, writtenBy, lastRefresh, mutex, cycle, clients>>
    /\ UNCHANGED <<cl, mig, req, stalled, shutdown, prevStats, lim>>


\* ------------------------------------------------- statsUseCase.GetStats
\* variant: >= instead of >
NeedsRefreshAtBound(last, t) == t - last >= RefreshTimeout

\* time.Since(uc.lastRefresh) > uc.refreshTimeout
NeedsRefresh(last, t) == t - last > RefreshTimeout

\* the staleness check, under uc.mutex.RLock()
GSCheck(p) ==
    /\ proc[p].pc = "gs_check"
    /\ mutex = None
    /\ LET need == NeedsRefresh(lastRefresh, now)
           r == [proc[p] EXCEPT !.checkTime = now, !.lrAtCheck = lastRefresh,
                                !.needsRefresh = need]
       IN proc' = [proc EXCEPT ![p] =
                     IF need THEN EnterRefresh(r) ELSE [r EXCEPT !.pc = "gs_getall"]]
    /\ UNCHANGED <<now, cache, writtenBy, lastRefresh, mutex, cycle, clients, hubMu>>
    /\ UNCHANGED <<cl, mig, req, stalled, shutdown, prevStats, lim>>

\* return uc.cache.GetAll(), nil
GSGetAll(p) ==
    /\ proc[p].pc = "gs_getall"
    /\ proc' = [proc EXCEPT ![p].pc = "ret", ![p].err = "nil", ![p].resNil = FALSE,
                            ![p].resAll = GetAll(cache),
                            ![p].readCycles = {writtenBy[k] : k \in DOMAIN cache.data},
                            ![p].servedAt = lastRefresh]
    /\ UNCHANGED <<now, cache, writtenBy, lastRefresh, mutex, cycle, clients, hubMu>>
    /\ UNCHANGED <<cl, mig, req, stalled, shutdown, prevStats, lim>>

\* ------------------------------------------- statsUseCase.GetTopProducts
\* the first uc.cache.Get("top_products")
TPGet1(p) ==
    /\ proc[p].pc = "tp_get"
    /\ proc' = [proc EXCEPT ![p] =
                  IF Exists(cache, "top_products")
                  THEN [@ EXCEPT !.pc = "ret", !.err = "nil", !.resNil = FALSE,
                                 !.resList = cache.data["top_products"]]
                  ELSE EnterRefresh(@)]
    /\ UNCHANGED <<now, cache, writtenBy, lastRefresh, mutex, cycle, clients, hubMu>>
    /\ UNCHANGED <<cl, mig, req, stalled, shutdown, prevStats, lim>>

\* after a refresh without error: the second Get, else the empty slice
TPGet2(p) ==
    /\ proc[p].pc = "tp_get2"
    /\ proc' = [proc EXCEPT ![p].pc = "ret", ![p].err = "nil", ![p].resNil = FALSE,
                            ![p].resList = IF Exists(cache, "top_products")
                                           THEN cache.data["top_products"] ELSE <<>>]
    /\ UNCHANGED <<now, cache, writtenBy, lastRefresh, mutex, cycle, clients, hubMu>>
    /\ UNCHANGED <<cl, mig, req, stalled, shutdown, prevStats, lim>>

\* ----------------------------------------- statsUseCase.GetCategoryStats
\* variant: an empty map is refreshed only while no refresh has succeeded
GCReadTrustsRefresh(p) ==
    /\ proc[p].pc = "gc_read"
    /\ LET cc == GetCategoryCounts(cache)
       IN proc' = [proc EXCEPT ![p] =
                     IF DOMAIN cc = {} /\ lastRefresh = ZeroTime THEN EnterRefresh(@)
                     ELSE [@ EXCEPT !.pc = "gc_list", !.counts = cc]]
    /\ UNCHANGED <<now, cache, writtenBy, lastRefresh, mutex, cycle, clients, hubMu>>
    /\ UNCHANGED <<cl, mig, req, stalled, shutdown, prevStats, lim>>

\* categoryCounts := uc.cache.GetCategoryCounts(), and RefreshStats if it is empty
GCRead(p) ==
    /\ proc[p].pc = "gc_read"
    /\ LET cc == GetCategoryCounts(cache)
       IN proc' = [proc EXCEPT ![p] =
                     IF DOMAIN cc = {} THEN EnterRefresh(@)
                     ELSE [@ EXCEPT !.pc = "gc_list", !.counts = cc]]
    /\ UNCHANGED <<now, cache, writtenBy, lastRefresh, mutex, cycle, clients, hubMu>>
    /\ UNCHANGED <<cl, mig, req, stalled, shutdown, prevStats, lim>>

GCReread(p) ==
    /\ proc[p].pc = "gc_reread"
    /\ proc' = [proc EXCEPT ![p].pc = "gc_list", ![p].counts = GetCategoryCounts(cache)]
    /\ UNCHANGED <<now, cache, writtenBy, lastRefresh, mutex, cycle, clients, hubMu>>
    /\ UNCHANGED <<cl, mig, req, stalled, shutdown, prevStats, lim>>

\* variant: an ID without a category gets the empty name
CategoryNameNoDefault(categories, id) ==
    LET hits == {i \in 1..Len(categories) : categories[i].ID = id}
    IN IF hits = {} THEN ""
       ELSE categories[CHOOSE i \in hits : \A j \in hits : i <= j].Name

\* the name of the first category of the list with this ID, else "Unknown"
CategoryName(categories, id) ==
    LET hits == {i \in 1..Len(categories) : categories[i].ID = id}
    IN IF hits = {} THEN "Unknown"
       ELSE categories[CHOOSE i \in hits : \A j \in hits : i <= j].Name

\* the range loop over categoryCounts, visiting the IDs in the order ord
CategoryStats(counts, categories, ord) ==
    [i \in 1..Len(ord) |-> [CategoryID |-> ord[i],
                            CategoryName |-> CategoryName(categories, ord[i]),
                            ProductCount |-> counts[ord[i]]]]

\* categoryRepo.List(ctx) and the loop that builds the result
GCList(p) ==
    /\ proc[p].pc = "gc_list"
    /\ \E ok \in BOOLEAN :
         IF ok
         THEN \E cats \in CategoryLists : \E ord \in Perms(DOMAIN proc[p].counts) :
                proc' = [proc EXCEPT ![p].pc = "ret", ![p].err = "nil", ![p].resNil = FALSE,
                           ![p].categories = cats,
                           ![p].resList = CategoryStats(proc[p].counts, cats, ord)]
         ELSE proc' = [proc EXCEPT ![p].pc = "ret", ![p].err = "ErrSource",
                                   ![p].categoriesErr = "ErrSource",
                                   ![p].resNil = TRUE]
    /\ UNCHANGED <<now, cache, writtenBy, lastRefresh, mutex, cycle, clients, hubMu>>
    /\ UNCHANGED <<cl, mig, req, stalled, shutdown, prevStats, lim>>

\* ----------------------------------------- statsUseCase.GetWishlistStats
GWRead(p) ==
    /\ proc[p].pc = "gw_read"
    /\ LET wc == GetWishlistCounts(cache)
       IN proc' = [proc EXCEPT ![p] =
                     IF DOMAIN wc = {} THEN EnterRefresh(@)
                     ELSE [@ EXCEPT !.pc = "gw_lookup", !.counts = wc]]
    /\ UNCHANGED <<now, cache, writtenBy, lastRefresh, mutex, cycle, clients, hubMu>>
    /\ UNCHANGED <<cl, mig, req, stalled, shutdown, prevStats, lim>>

GWReread(p) ==
    /\ proc[p].pc = "gw_reread"
    /\ proc' = [proc EXCEPT ![p].pc = "gw_lookup", ![p].counts = GetWishlistCounts(cache)]
    /\ UNCHANGED <<now, cache, writtenBy, lastRefresh, mutex, cycle, clients, hubMu>>
    /\ UNCHANGED <<cl, mig, req, stalled, shutdown, prevStats, lim>>

\* the entry a lookup goroutine builds for a product it found
WishlistStat(counts, id) ==
    [ProductID |-> id, ProductName |-> ProductNames[id], WishlistCount |-> counts[id]]

\* the range loop: one goroutine per entry of wishlistCounts, stats empty
GWSpawn(p) ==
    /\ proc[p].pc = "gw_lookup"
    /\ proc' = [proc EXCEPT ![p].pc = "gw_wait",
                            ![p].gw = [id \in DOMAIN proc[p].counts |-> "find"],
                            ![p].hdr = [id \in DOMAIN proc[p].counts |-> <<>>],
                            ![p].mu = 0, ![p].stats = <<>>, ![p].found = {}]
    /\ UNCHANGED <<now, cache, writtenBy, lastRefresh, mutex, cycle, clients, hubMu>>
    /\ UNCHANGED <<cl, mig, req, stalled, shutdown, prevStats, lim>>

\* productRepo.FindByID(ctx, id): a product, nil without error, or an error;
\* the goroutine ends (wg.Done) unless it has a product
GWFind(p, id) ==
    /\ proc[p].pc = "gw_wait"
    /\ id \in DOMAIN proc[p].gw
    /\ proc[p].gw[id] = "find"
    /\ \E out \in {"product", "nil", "err"} :
         proc' = [proc EXCEPT ![p].gw[id] = IF out = "product" THEN "lock" ELSE "done",
                              ![p].found = IF out = "product" THEN @ \cup {id} ELSE @]
    /\ UNCHANGED <<now, cache, writtenBy, lastRefresh, mutex, cycle, clients, hubMu>>
    /\ UNCHANGED <<cl, mig, req, stalled, shutdown, prevStats, lim>>

\* variant: the append is not protected by mu
GWMuLockNoMutex(p, id) ==
    /\ proc[p].pc = "gw_wait"
    /\ id \in DOMAIN proc[p].gw
    /\ proc[p].gw[id] = "lock"
    /\ proc' = [proc EXCEPT ![p].gw[id] = "append", ![p].mu = id,
                            ![p].hdr[id] = proc[p].stats]
    /\ UNCHANGED <<now, cache, writtenBy, lastRefresh, mutex, cycle, clients, hubMu>>
    /\ UNCHANGED <<cl, mig, req, stalled, shutdown, prevStats, lim>>

\* mu.Lock(), and append reads the slice it is going to extend
GWMuLock(p, id) ==
    /\ proc[p].pc = "gw_wait"
    /\ id \in DOMAIN proc[p].gw
    /\ proc[p].gw[id] = "lock"
    /\ proc[p].mu = 0
    /\ proc' = [proc EXCEPT ![p].gw[id] = "append", ![p].mu = id,
                            ![p].hdr[id] = proc[p].stats]
    /\ UNCHANGED <<now, cache, writtenBy, lastRefresh, mutex, cycle, clients, hubMu>>
    /\ UNCHANGED <<cl, mig, req, stalled, shutdown, prevStats, lim>>

\* stats = append(stats, stat); mu.Unlock(); wg.Done()
GWAppend(p, id) ==
    /\ proc[p].pc = "gw_wait"
    /\ id \in DOMAIN proc[p].gw
    /\ proc[p].gw[id] = "append"
    /\ proc' = [proc EXCEPT ![p].gw[id] = "done", ![p].mu = 0,
                            ![p].hdr[id] = <<>>,
                            ![p].stats = Append(proc[p].hdr[id],
                                                WishlistStat(proc[p].counts, id))]
    /\ UNCHANGED <<now, cache, writtenBy, lastRefresh, mutex, cycle, clients, hubMu>>
    /\ UNCHANGED <<cl, mig, req, stalled, shutdown, prevStats, lim>>

\* wg.Wait() is over: return stats, nil
GWJoin(p) ==
    /\ proc[p].pc = "gw_wait"
    /\ \A id \in DOMAIN proc[p].gw : proc[p].gw[id] = "done"
    /\ proc' = [proc EXCEPT ![p].pc = "ret", ![p].err = "nil", ![p].resNil = FALSE,
                            ![p].resList = proc[p].stats]
    /\ UNCHANGED <<now, cache, writtenBy, lastRefresh, mutex, cycle, clients, hubMu>>
    /\ UNCHANGED <<cl, mig, req, stalled, shutdown, prevStats, lim>>

\* ------------------------------------------------------- the specification
Next ==
    \/ Tick
    \/ \E p \in Procs : Call(p)
    \/ \E p \in Procs : Cancel(p)
    \/ \E p \in Procs : Finish(p)
    \/ \E p \in Procs : RSLock(p)
    \/ \E p \in Procs : RSFanOut(p)
    \/ \E p \in Procs : RSJoin(p)
    \/ \E p \in Procs : RSSet(p)
    \/ \E p \in Procs : RSTime(p)
    \/ \E p \in Procs : BroadcastLock(p)
    \/ \E p \in Procs : BroadcastWrite(p)
    \/ \E p \in Procs : BroadcastUnlock(p)
    \/ \E p \in Procs : RSReturn(p)
    \/ \E c \in Conns : HandleWS(c)
    \/ \E c \in Conns : Disconnect(c)
    \/ \E p \in Procs : GSCheck(p)
    \/ \E p \in Procs : GSGetAll(p)
    \/ \E p \in Procs : TPGet1(p)
    \/ \E p \in Procs : TPGet2(p)
    \/ \E p \in Procs : GCRead(p)
    \/ \E p \in Procs : GCReread(p)
    \/ \E p \in Procs : GCList(p)
    \/ \E p \in Procs : GWRead(p)
    \/ \E p \in Procs : GWReread(p)
    \/ \E p \in Procs : GWSpawn(p)
    \/ \E p \in Procs : GWJoin(p)

Spec == Init /\ [][Next]_vars

\* ------------------------------------------------------ the refresh loop
\* startRefreshLoop on its own: the steps of the loop's goroutine, the clock
\* and the subscribers of the hub
LoopStep ==
    \/ Call(Scheduler)
    \/ RSLock(Scheduler)
    \/ RSFanOut(Scheduler)
    \/ RSJoin(Scheduler)
    \/ RSSet(Scheduler)
    \/ RSTime(Scheduler)
    \/ BroadcastLock(Scheduler)
    \/ BroadcastWrite(Scheduler)
    \/ BroadcastUnlock(Scheduler)
    \/ RSReturn(Scheduler)
    \/ Finish(Scheduler)

LoopNext ==
    \/ Tick
    \/ \E c \in Conns : HandleWS(c)
    \/ \E c \in Conns : Disconnect(c)
    \/ LoopStep

\* the loop's goroutine is scheduled whenever it can run, and the ticker
\* keeps delivering ticks
LoopSpec == Init /\ [][LoopNext]_vars /\ WF_vars(LoopStep)

\* ------------------------------------------------- the hub on its own
\* the refresh loop as the publisher, and subscribers that come and go
HubNext ==
    \/ Tick
    \/ \E c \in Subscribers : HandleWS(c)
    \/ \E c \in Subscribers : Disconnect(c)
    \/ LoopStep

HubSpec == Init /\ [][HubNext]_vars

\* ------------------------------------------ subscribers that stop reading
\* the refresh loop and a hub whose subscribers may stop reading
StallStep ==
    \/ LoopStep
    \/ BroadcastBlocks(Scheduler)

StallNext ==
    \/ LoopNext
    \/ \E c \in Conns : PeerStalls(c)
    \/ BroadcastBlocks(Scheduler)

StallSpec == Init /\ [][StallNext]_vars /\ WF_vars(StallStep)

\* ------------------------------------------- a source that does not answer
\* the refresh loop and a product source that may never return
HangNext ==
    \/ LoopNext
    \/ RSSourceHangs(Scheduler)

HangSpec == Init /\ [][HangNext]_vars /\ WF_vars(LoopStep)

\* ------------------------------------------------------------- shutdown
\* main receives SIGINT or SIGTERM and calls server.Shutdown with a context of
\* its own.  The use case is given no context and no stop channel, and
\* nothing here reaches the loop: its steps are those of LoopStep as before
Shutdown ==
    /\ ~shutdown
    /\ shutdown' = TRUE
    /\ UNCHANGED <<now, cache, writtenBy, lastRefresh, mutex, cycle, clients, hubMu, proc>>
    /\ UNCHANGED <<cl, mig, req, stalled, prevStats, lim>>

ShutdownNext ==
    \/ LoopNext
    \/ Shutdown

ShutdownSpec == Init /\ [][ShutdownNext]_vars /\ WF_vars(LoopStep)

\* ------------------------------------------- the per-key read paths
\* GetCategoryStats and GetWishlistStats over a cache whose count maps were
\* given by SetCategoryCounts and SetWishlistCounts
ReaderOps == {"GetCategoryStats", "GetWishlistStats"}

ReaderInit ==
    /\ now = StartTime
    /\ \E cc \in CountMaps : \E wc \in CountMaps :
         cache = SetWishlistCounts(SetCategoryCounts(NewStatsCache, cc, StartTime),
                                   wc, StartTime)
    /\ writtenBy = [k \in {} |-> 0]
    /\ lastRefresh = ZeroTime
    /\ mutex = None
    /\ cycle = 0
    /\ clients = {}
    /\ hubMu = None
    /\ proc = [p \in Procs |-> IdleProc]
    /\ cl = NoClient
    /\ mig = NoMigration
    /\ req = NoRequest
    /\ stalled = {}
    /\ shutdown = FALSE
    /\ prevStats = NoStats
    /\ lim = NewIPRateLimiter

\* StatsHandler.GetCategoryStats answers 200 with the list the use case
\* returned: the client now has this response, next to the inputs it came from
RespondCategoryStats(p) ==
    /\ proc[p].pc = "ret"
    /\ proc[p].op = "GetCategoryStats"
    /\ proc[p].err = "nil"
    /\ prevStats' = [valid |-> TRUE, counts |-> proc[p].counts,
                     categories |-> proc[p].categories, list |-> proc[p].resList]
    /\ UNCHANGED <<now, cache, writtenBy, lastRefresh, mutex, cycle, clients, hubMu, proc>>
    /\ UNCHANGED <<cl, mig, req, stalled, shutdown, lim>>

ReaderNext ==
    \/ \E p \in Handlers : RespondCategoryStats(p)
    \/ \E p \in Handlers : Call(p) /\ proc'[p].op \in ReaderOps
    \/ \E p \in Handlers : GCRead(p)
    \/ \E p \in Handlers : GCList(p)
    \/ \E p \in Handlers : GWRead(p)
    \/ \E p \in Handlers : GWSpawn(p)
    \/ \E p \in Handlers : \E id \in DOMAIN ProductNames : GWFind(p, id)
    \/ \E p \in Handlers : \E id \in DOMAIN ProductNames : GWMuLock(p, id)
    \/ \E p \in Handlers : \E id \in DOMAIN ProductNames : GWAppend(p, id)
    \/ \E p \in Handlers : GWJoin(p)
    \/ \E p \in Handlers : Finish(p)

ReaderSpec == ReaderInit /\ [][ReaderNext]_vars

\* the same read paths with the refresh they start when the map is empty
ReaderRefreshNext ==
    \/ ReaderNext
    \/ Tick
    \/ \E p \in Handlers : RSLock(p)
    \/ \E p \in Handlers : RSFanOut(p)
    \/ \E p \in Handlers : RSJoin(p)
    \/ \E p \in Handlers : RSSet(p)
    \/ \E p \in Handlers : RSTime(p)
    \/ \E p \in Handlers : BroadcastLock(p)
    \/ \E p \in Handlers : BroadcastUnlock(p)
    \/ \E p \in Handlers : RSReturn(p)
    \/ \E p \in Handlers : GCReread(p)
    \/ \E p \in Handlers : GWReread(p)

ReaderRefreshSpec == ReaderInit /\ [][ReaderRefreshNext]_vars

\* ------------------------------------------------- the cache on its own
\* A goroutine that uses the StatsCache directly: every method with every
\* argument of the small sets below, at any time, and between two calls it
\* may change a map it passed in or got back.
DataKeys == {"total_products"}
DataValues == {0} \cup Counts
ClientMaps == {m \in CountMaps : DOMAIN m \subseteq {1}}
WriteOps == {"Set", "SetCategoryCounts", "SetWishlistCounts", "Clear"}
ReadOps == {"Get", "GetAll", "GetCategoryCounts", "GetWishlistCounts", "GetLastRefreshed"}

\* the caller after the call op at time now, holding the map held
Client(op, res, held, from, same) ==
    [op |-> op, at |-> now, res |-> res, held |-> held, from |-> from, same |-> same,
     afterClear |-> (cl.op = "Clear"), wrote |-> (cl.wrote \/ op \in WriteOps),
     list |-> cl.list, listSame |-> cl.listSame]

CacheFrame ==
    UNCHANGED <<writtenBy, lastRefresh, mutex, cycle, clients, hubMu, proc, mig, req,
               stalled, shutdown, prevStats, lim>>

CacheSet(key, value) ==
    /\ cache' = Set(cache, key, value, now)
    /\ cl' = [Client("Set", EmptyMap,
                     IF cl.same = "data" THEN cache'.data ELSE cl.held, cl.from, cl.same)
               EXCEPT !.list = IF key = ListKey THEN value ELSE @,
                      !.listSame = IF key = ListKey THEN SharedArray(key) ELSE @]
    /\ UNCHANGED now
    /\ CacheFrame

CacheGet(key) ==
    /\ cl' = [Client("Get", Get(cache, key), cl.held, cl.from, cl.same)
               EXCEPT !.list = IF key = ListKey /\ Exists(cache, key)
                               THEN cache.data[key] ELSE @,
                      !.listSame = IF key = ListKey /\ Exists(cache, key)
                                   THEN SharedArray(key) ELSE @]
    /\ UNCHANGED <<now, cache>>
    /\ CacheFrame

CacheGetAll ==
    /\ cl' = [Client("GetAll", GetAll(cache), GetAll(cache), "GetAll",
                     AliasOfResult("data"))
               EXCEPT !.list = IF Exists(cache, ListKey) THEN cache.data[ListKey] ELSE @,
                      !.listSame = IF Exists(cache, ListKey)
                                   THEN SharedArray(ListKey) ELSE @]
    /\ UNCHANGED <<now, cache>>
    /\ CacheFrame

CacheSetCategoryCounts(counts) ==
    /\ cache' = SetCategoryCounts(cache, counts, now)
    /\ cl' = Client("SetCategoryCounts", EmptyMap, counts, "SetCategoryCounts",
                    AliasAfterSet("categoryCounts"))
    /\ UNCHANGED now
    /\ CacheFrame

CacheGetCategoryCounts ==
    /\ cl' = Client("GetCategoryCounts", GetCategoryCounts(cache),
                    GetCategoryCounts(cache), "GetCategoryCounts",
                    AliasOfResult("categoryCounts"))
    /\ UNCHANGED <<now, cache>>
    /\ CacheFrame

CacheSetWishlistCounts(counts) ==
    /\ cache' = SetWishlistCounts(cache, counts, now)
    /\ cl' = Client("SetWishlistCounts", EmptyMap, counts, "SetWishlistCounts",
                    AliasAfterSet("wishlistCounts"))
    /\ UNCHANGED now
    /\ CacheFrame

CacheGetWishlistCounts ==
    /\ cl' = Client("GetWishlistCounts", GetWishlistCounts(cache),
                    GetWishlistCounts(cache), "GetWishlistCounts",
                    AliasOfResult("wishlistCounts"))
    /\ UNCHANGED <<now, cache>>
    /\ CacheFrame

\* Clear replaces the three maps by new ones
CacheClear ==
    /\ cache' = Clear(cache, now)
    /\ cl' = [Client("Clear", EmptyMap, cl.held, cl.from, "none")
               EXCEPT !.listSame = "none"]
    /\ UNCHANGED now
    /\ CacheFrame

CacheGetLastRefreshed ==
    /\ cl' = Client("GetLastRefreshed", [t |-> GetLastRefreshed(cache)],
                    cl.held, cl.from, cl.same)
    /\ UNCHANGED <<now, cache>>
    /\ CacheFrame

\* what one statement of the caller can make of its map m: delete(m, k),
\* m[k] = v for a key it has, and for a count map m[1] = v
Mutations(m, from) ==
    {[x \in (DOMAIN m) \ {k} |-> m[x]] : k \in DOMAIN m}
        \cup {[m EXCEPT ![k] = v] : k \in DOMAIN m, v \in CountValues}
        \cup (IF from = "GetAll" THEN {} ELSE {Put(m, 1, v) : v \in CountValues})

\* the caller changes the map it holds; a map that is the same object as a
\* map of the cache changes there too
ClientMutate ==
    /\ cl.from # "none"
    /\ \E m \in Mutations(cl.held, cl.from) \ {cl.held} :
         /\ cl' = [cl EXCEPT !.op = "Mutate", !.at = now, !.res = EmptyMap, !.held = m,
                             !.afterClear = FALSE]
         /\ cache' = CASE cl.same = "categoryCounts" -> [cache EXCEPT !.categoryCounts = m]
                       [] cl.same = "wishlistCounts" -> [cache EXCEPT !.wishlistCounts = m]
                       [] cl.same = "data" -> [cache EXCEPT !.data = m]
                       [] OTHER -> cache
    /\ UNCHANGED now
    /\ CacheFrame

CacheNext ==
    \/ Tick
    \/ \E key \in DataKeys : \E value \in DataValues : CacheSet(key, value)
    \/ \E key \in DataKeys : CacheGet(key)
    \/ CacheGetAll
    \/ \E counts \in ClientMaps : CacheSetCategoryCounts(counts)
    \/ CacheGetCategoryCounts
    \/ \E counts \in ClientMaps : CacheSetWishlistCounts(counts)
    \/ CacheGetWishlistCounts
    \/ CacheClear
    \/ CacheGetLastRefreshed
    \/ ClientMutate

CacheSpec == Init /\ [][CacheNext]_vars

\* ------------------------------------------- the cache and a cached list
\* the caller writes an element of the list it holds, list[i].Count = v; a
\* list that shares its elements with a cached slice changes there too
ClientMutateList ==
    /\ \E i \in 1..Len(cl.list) : \E v \in CountValues \ {cl.list[i].Count} :
         LET l == [cl.list EXCEPT ![i].Count = v]
         IN /\ cl' = [cl EXCEPT !.op = "MutateList", !.at = now, !.res = EmptyMap,
                                !.list = l, !.afterClear = FALSE]
            /\ cache' = IF cl.listSame \in DOMAIN cache.data
                        THEN [cache EXCEPT !.data[cl.listSame] = l]
                        ELSE cache
    /\ UNCHANGED now
    /\ CacheFrame

\* a goroutine that uses the StatsCache for the top-products list
ListNext ==
    \/ Tick
    \/ \E l \in TopLists : CacheSet(ListKey, l)
    \/ CacheGet(ListKey)
    \/ CacheGetAll
    \/ CacheClear
    \/ ClientMutateList

ListSpec == Init /\ [][ListNext]_vars

\* --------------------------------------------------- forced invalidation
\* GetStats requests served one after the other, and a Clear of the cache at
\* any time between their steps
ClearNext ==
    \/ Tick
    \/ CacheClear
    \/ \E p \in Handlers : Call(p) /\ proc'[p].op = "GetStats"
    \/ \E p \in Handlers : GSCheck(p)
    \/ \E p \in Handlers : RSLock(p)
    \/ \E p \in Handlers : RSFanOut(p)
    \/ \E p \in Handlers : RSJoin(p)
    \/ \E p \in Handlers : RSSet(p)
    \/ \E p \in Handlers : RSTime(p)
    \/ \E p \in Handlers : BroadcastLock(p)
    \/ \E p \in Handlers : BroadcastUnlock(p)
    \/ \E p \in Handlers : RSReturn(p)
    \/ \E p \in Handlers : GSGetAll(p)
    \/ \E p \in Handlers : Finish(p)

ClearSpec == Init /\ [][ClearNext]_vars

\* ------------------------------------------------------- the rate limiter
\* Each critical section of GetLimiter calls nothing that can block, so it
\* is one step; between the two sections the goroutine holds no lock.
LimFrame ==
    UNCHANGED <<now, cache, writtenBy, lastRefresh, mutex, cycle, clients, hubMu, proc,
                cl, mig, req, stalled, shutdown, prevStats>>

\* RateLimitMiddleware calls GetLimiter(c.ClientIP()):
\* i.mu.RLock(); limiter, exists := i.ips[ip]; i.mu.RUnlock()
GetLimiterRead(g, ip) ==
    /\ lim.call[g].pc = "idle"
    /\ lim' = [lim EXCEPT !.call[g] =
                 IF ip \in DOMAIN lim.ips
                 THEN [pc |-> "return", ip |-> ip, limiter |-> lim.ips[ip]]
                 ELSE [pc |-> "create", ip |-> ip, limiter |-> 0]]
    /\ LimFrame

\* if !exists: i.mu.Lock(); limiter = rate.NewLimiter(...); i.ips[ip] = limiter;
\* i.mu.Unlock()
GetLimiterCreate(g) ==
    /\ lim.call[g].pc = "create"
    /\ lim' = [lim EXCEPT !.made = @ + 1,
                          !.ips = Put(@, lim.call[g].ip, lim.made + 1),
                          !.call[g].pc = "return",
                          !.call[g].limiter = lim.made + 1]
    /\ LimFrame

\* return limiter: the middleware goes on with limiter.Allow()
GetLimiterReturn(g) ==
    /\ lim.call[g].pc = "return"
    /\ lim' = [lim EXCEPT !.returned[lim.call[g].ip] = @ \cup {lim.call[g].limiter},
                          !.call[g] = NoCall]
    /\ LimFrame

LimNext ==
    \/ \E g \in Requesters : \E ip \in ClientIPs : GetLimiterRead(g, ip)
    \/ \E g \in Requesters : GetLimiterCreate(g)
    \/ \E g \in Requesters : GetLimiterReturn(g)

LimSpec == Init /\ [][LimNext]_vars

\* ------------------------------------------------------------ HTTP routes
\* gin: a group starts with a copy of its parent's handlers, Use appends to
\* the handlers of the group it is called on, and a route runs the handlers
\* its group had when the route was added, then its own handler.  Paths are
\* sequences of segments.
Group(g, relativePath) ==
    [basePath |-> g.basePath \o relativePath, Handlers |-> g.Handlers]

Use(g, middleware) == [g EXCEPT !.Handlers = Append(@, middleware)]

Handle(g, method, relativePath, handler) ==
    [method |-> method, path |-> g.basePath \o relativePath,
     chain |-> Append(g.Handlers, handler)]

\* the engine of NewServer; of its middleware (recovery, error handler, CORS,
\* rate limiter, loggers) only the rate limiter can end a request
Router == [basePath |-> <<>>, Handlers |-> <<"RateLimitMiddleware">>]

\* ProductHandler.RegisterRoutes(router)
ProductRoutes(router) ==
    LET products == Group(router, <<"products">>)
    IN {Handle(products, "POST", <<>>, "CreateProduct"),
        Handle(products, "GET", <<>>, "ListProducts"),
        Handle(products, "GET", <<":id">>, "GetProduct"),
        Handle(products, "PUT", <<":id">>, "UpdateProduct"),
        Handle(products, "DELETE", <<":id">>, "DeleteProduct"),
        Handle(products, "GET", <<"search">>, "SearchProductsByDescription")}

StatsHandlers == {"GetStats", "GetCategoryStats", "GetWishlistStats", "GetTopProducts",
                  "RefreshStats"}

\* StatsHandler.RegisterRoutes(router)
StatsRoutes(router) ==
    LET stats == Group(router, <<"stats">>)
    IN {Handle(stats, "GET", <<>>, "GetStats"),
        Handle(stats, "GET", <<"categories">>, "GetCategoryStats"),
        Handle(stats, "GET", <<"wishlist">>, "GetWishlistStats"),
        Handle(stats, "GET", <<"top-products">>, "GetTopProducts"),
        Handle(stats, "POST", <<"refresh">>, "RefreshStats")}

\* Server.registerRoutes: statsRoutes gets the role check, and the stats
\* handler is given protectedAPI
Routes ==
    LET protectedAPI == Use(Group(Router, <<"api", "v1">>), "Authenticate")
        statsRoutes == Use(Group(protectedAPI, <<"stats">>), "AuthorizeRole")
    IN {Handle(Router, "GET", <<"health">>, "healthCheck")}
           \cup ProductRoutes(protectedAPI)
           \cup StatsRoutes(protectedAPI)

\* the Authorization header of a request: none, not "Bearer <token>", a token
\* that does not verify, or a valid token; a valid token carries a role
Credentials == {"missing", "malformed", "invalid", "valid"}
Roles == {"admin", "user"}

\* JWTAuthMiddleware.Authenticate
Authenticate(r) ==
    IF r.cred = "valid"
    THEN [r EXCEPT !.ctxRole = r.role, !.i = @ + 1]
    ELSE [r EXCEPT !.pc = "done", !.status = 401]

\* JWTAuthMiddleware.AuthorizeRole(roles...)
AuthorizeRole(r, roles) ==
    IF r.ctxRole = "" THEN [r EXCEPT !.pc = "done", !.status = 401]
    ELSE IF r.ctxRole \in roles THEN [r EXCEPT !.i = @ + 1]
    ELSE [r EXCEPT !.pc = "done", !.status = 403]

\* the router finds the route of a request (NoRoute: 404)
Arrive ==
    /\ req.pc = "off"
    /\ \E route \in Routes : \E cred \in Credentials : \E role \in Roles :
         req' = [NoRequest EXCEPT !.pc = "chain", !.method = route.method,
                                  !.path = route.path, !.cred = cred,
                                  !.role = IF cred = "valid" THEN role ELSE "",
                                  !.chain = route.chain, !.i = 1]
    /\ UNCHANGED <<now, cache, writtenBy, lastRefresh, mutex, cycle, clients, hubMu, proc>>
    /\ UNCHANGED <<cl, mig, stalled, shutdown, prevStats, lim>>

\* c.Next(): the next handler of the chain runs
RunHandler ==
    /\ req.pc = "chain"
    /\ LET h == req.chain[req.i]
       IN CASE h = "RateLimitMiddleware" ->
                 \E allowed \in BOOLEAN :
                    req' = IF allowed THEN [req EXCEPT !.i = @ + 1]
                           ELSE [req EXCEPT !.pc = "done", !.status = 429]
            [] h = "Authenticate" -> req' = Authenticate(req)
            [] h = "AuthorizeRole" -> req' = AuthorizeRole(req, {"admin"})
            [] OTHER -> req' = [req EXCEPT !.pc = "done", !.reached = h, !.status = 200]
    /\ UNCHANGED <<now, cache, writtenBy, lastRefresh, mutex, cycle, clients, hubMu, proc>>
    /\ UNCHANGED <<cl, mig, stalled, shutdown, prevStats, lim>>

\* the response is written
Respond ==
    /\ req.pc = "done"
    /\ req' = NoRequest
    /\ UNCHANGED <<now, cache, writtenBy, lastRefresh, mutex, cycle, clients, hubMu, proc>>
    /\ UNCHANGED <<cl, mig, stalled, shutdown, prevStats, lim>>

RouteNext == Arrive \/ RunHandler \/ Respond

RouteSpec == Init /\ [][RouteNext]_vars

\* ------------------------------------------------------ the migration tool
\* sort.Slice by Name, ascending and descending
RECURSIVE SortAsc(_)
SortAsc(S) == IF S = {} THEN <<>>
              ELSE LET m == CHOOSE x \in S : \A y \in S : x <= y
                   IN <<m>> \o SortAsc(S \ {m})

RECURSIVE SortDesc(_)
SortDesc(S) == IF S = {} THEN <<>>
               ELSE LET m == CHOOSE x \in S : \A y \in S : x >= y
                    IN <<m>> \o SortDesc(S \ {m})

\* the elements of a sequence that satisfy keep, in their order
RECURSIVE Filter(_, _)
Filter(seq, keep) ==
    IF seq = <<>> THEN <<>>
    ELSE (IF Head(seq) \in keep THEN <<Head(seq)>> ELSE <<>>) \o Filter(Tail(seq), keep)

\* loadMigrations(dir, down): the names of the *_down.sql files, or of the
\* other .sql files
LoadMigrations(m, down) == IF down THEN m.downFiles ELSE 1..m.nFiles

\* variant: the up branch does not look at the migrations table
MigrationsToApplyIgnoresTable(m, down, migrationID) ==
    LET wanted == {n \in 1..NumMigrations : migrationID = 0 \/ n = migrationID}
    IN IF down
       THEN Filter(SortDesc(LoadMigrations(m, down)), m.applied \cap wanted)
       ELSE Filter(SortAsc(LoadMigrations(m, down)), wanted)

\* the filter of main: migrationID 0 stands for the flag not given
MigrationsToApply(m, down, migrationID) ==
    LET wanted == {n \in 1..NumMigrations : migrationID = 0 \/ n = migrationID}
    IN IF down
       THEN Filter(SortDesc(LoadMigrations(m, down)), m.applied \cap wanted)
       ELSE Filter(SortAsc(LoadMigrations(m, down)),
                   ((1..NumMigrations) \ m.applied) \cap wanted)

MigFrame ==
    UNCHANGED <<now, cache, writtenBy, lastRefresh, mutex, cycle, clients, hubMu, proc,
                cl, req, stalled, shutdown, prevStats, lim>>

\* a developer adds the next migration file, with or without its _down file
NewMigrationFile ==
    /\ mig.pc = "off"
    /\ mig.nFiles < NumMigrations
    /\ \E withDown \in BOOLEAN :
         mig' = [mig EXCEPT !.nFiles = @ + 1,
                            !.downFiles = IF withDown THEN @ \cup {mig.nFiles + 1} ELSE @]
    /\ MigFrame

\* main up to the loop: flags, the migrations table, the files, the filter
MigrateStart ==
    /\ mig.pc = "off"
    /\ \E down \in BOOLEAN : \E migrationID \in 0..NumMigrations :
         LET toApply == MigrationsToApply(mig, down, migrationID)
         IN mig' = [mig EXCEPT !.pc = IF toApply = <<>> THEN "exited" ELSE "apply",
                               !.down = down, !.migrationID = migrationID,
                               !.todo = toApply, !.log = <<>>, !.before = mig.applied,
                               !.exit = IF toApply = <<>> THEN "none" ELSE "",
                               !.failed = 0]
    /\ MigFrame

\* one round of the loop: the file, the transaction with the SQL and the
\* change of the migrations table, the commit; any failure rolls the
\* transaction back (or leaves it uncommitted) and ends the tool
MigrateOne ==
    /\ mig.pc = "apply"
    /\ mig.todo # <<>>
    /\ LET name == Head(mig.todo)
       IN \E ok \in BOOLEAN :
            mig' = IF ok
                   THEN [mig EXCEPT !.todo = Tail(@), !.log = Append(@, name),
                                    !.schema = IF mig.down THEN @ \ {name}
                                               ELSE @ \cup {name},
                                    !.applied = IF mig.down THEN @ \ {name}
                                                ELSE @ \cup {name}]
                   ELSE [mig EXCEPT !.pc = "exited", !.exit = "fatal", !.failed = name]
    /\ MigFrame

\* "Migrations completed successfully"
MigrateDone ==
    /\ mig.pc = "apply"
    /\ mig.todo = <<>>
    /\ mig' = [mig EXCEPT !.pc = "exited", !.exit = "ok"]
    /\ MigFrame

\* the process is gone; the files and the database stay
MigrateExit ==
    /\ mig.pc = "exited"
    /\ mig' = [NoMigration EXCEPT !.nFiles = mig.nFiles, !.downFiles = mig.downFiles,
                                  !.applied = mig.applied, !.schema = mig.schema]
    /\ MigFrame

MigNext ==
    \/ NewMigrationFile
    \/ MigrateStart
    \/ MigrateOne
    \/ MigrateDone
    \/ MigrateExit

MigSpec == Init /\ [][MigNext]_vars

TypeOK ==
    /\ now \in StartTime..EndTime
    /\ mutex \in Procs \cup {None}
    /\ hubMu \in Procs \cup {None}
    /\ cycle \in 0..MaxCycles
    /\ clients \subseteq Conns \cup Subscribers
    /\ lastRefresh \in ZeroTime..EndTime
    /\ cache.lastRefreshed \in ZeroTime..EndTime


\* ------------------------------------------------------------ properties
AnySourceFailed(r) ==
    \/ r.productCountErr # "nil" \/ r.userCountErr # "nil" \/ r.reviewCountErr # "nil"
    \/ r.avgRatingErr # "nil" \/ r.categoryCountsErr # "nil"
    \/ r.wishlistCountsErr # "nil" \/ r.topProductsErr # "nil"

\* the cache holds the seven items of the cycle that r is running
AllSeven(r) ==
    /\ \A k \in ScalarKeys : Exists(cache, k) /\ cache.data[k] = CycleValue(r, k)
    /\ cache.categoryCounts = r.categoryCounts
    /\ cache.wishlistCounts = r.wishlistCounts

AfterJoin == {"rs_fail", "rs_set", "rs_time", "rs_bcast", "rs_bwrite", "rs_ret"}
AfterWrites == {"rs_time", "rs_bcast", "rs_bwrite", "rs_ret"}

\* C1: no torn reads -- every GetAll returns scalar entries that were all
\* written by one and the same refresh cycle.
C1_NoTornReads ==
    \A p \in Procs : Cardinality(proc[p].readCycles) <= 1

\* C2: if a Metric Source call of a cycle fails, RefreshStats returns an error
\* and the cache (scalar entries, both count maps, lastRefreshed) is exactly
\* as it was when the cycle began.
C2_FailedRefreshKeepsCache ==
    \A p \in Procs :
        (proc[p].pc \in AfterJoin /\ AnySourceFailed(proc[p]))
            => /\ proc[p].pc = "rs_fail"
               /\ proc[p].retErr # "nil"
               /\ cache = proc[p].before

C2_Witness ==
    \E p \in Procs : /\ proc[p].pc = "rs_fail"
                     /\ proc[p].productCountErr # "nil"
                     /\ Exists(proc[p].before, "total_products")

\* C3: at most one refresh cycle is in flight -- no two callers are at the
\* same time between the fan-out and the return of RefreshStats.
C3_OneRefreshInFlight ==
    Cardinality({p \in Procs : proc[p].pc \in InRefresh \ {"rs_lock"}}) <= 1

C3_Witness ==
    \E p, q \in Procs : /\ proc[p].pc = "rs_set"
                        /\ proc[q].pc = "rs_lock"

\* C4: a caller to whom RefreshStats returned nil sees a cache whose
\* lastRefreshed is not earlier than the instant of its call.
C4_FreshAfterRefresh ==
    \A p \in Procs :
        proc[p].rsReturned = "ok" => cache.lastRefreshed >= proc[p].rsCall

C4_Witness ==
    \E p, q \in Procs : /\ p # q
                        /\ proc[p].rsReturned = "ok"
                        /\ proc[q].rsReturned = "ok"
                        /\ proc[q].rsCall > StartTime

\* C5: GetTopProducts on a cache without "top_products" makes exactly one
\* refresh attempt and, when that refresh fails, returns the empty list and
\* no error.
C5_TopProductsEmptyOnFailure ==
    \A p \in Procs :
        (proc[p].op = "GetTopProducts" /\ proc[p].pc = "ret" /\ proc[p].nRefresh > 0)
            => /\ proc[p].nRefresh = 1
               /\ proc[p].rsReturned = "err"
                    => (proc[p].err = "nil" /\ ~proc[p].resNil /\ proc[p].resList = <<>>)

\* C6: GetStats serves the cache without a refresh when the last successful
\* refresh is at most RefreshTimeout old at the staleness check, makes one
\* refresh when it is older (cold start included), and a GetStats that returns
\* without error serves a state whose last successful refresh was not older
\* than RefreshTimeout at the moment of the check.
C6_GetStatsStaleness ==
    \A p \in Procs :
        (proc[p].op = "GetStats" /\ proc[p].pc = "ret" /\ proc[p].err = "nil")
            => /\ (proc[p].checkTime - proc[p].lrAtCheck <= RefreshTimeout)
                    => proc[p].nRefresh = 0
               /\ (proc[p].checkTime - proc[p].lrAtCheck > RefreshTimeout)
                    => proc[p].nRefresh = 1
               /\ proc[p].checkTime - proc[p].servedAt <= RefreshTimeout

C6_Witness ==
    \E p \in Procs : /\ proc[p].op = "GetStats" /\ proc[p].pc = "ret"
                     /\ proc[p].err = "nil"
                     /\ proc[p].lrAtCheck # ZeroTime
                     /\ proc[p].nRefresh = 1

\* C7: once the writes of a successful cycle are made, GetAll holds
\* total_products = the count the product source returned in that cycle and
\* GetTopProducts returns the list the top-products source returned in it.
C7_CacheHoldsCycleValues ==
    \A p \in Procs :
        proc[p].pc \in AfterWrites
            => /\ "total_products" \in DOMAIN GetAll(cache)
               /\ GetAll(cache)["total_products"] = proc[p].productCount
               /\ Exists(cache, "top_products")
               /\ cache.data["top_products"] = proc[p].topProducts

C7_Witness ==
    \E p \in Procs : /\ proc[p].pc = "rs_ret"
                     /\ proc[p].productCount = 42
                     /\ GetAll(cache)["total_products"] = 42
                     /\ cache.data["top_products"] = <<>>

\* C8: when the cache holds no data and the refresh they trigger fails,
\* GetStats, GetCategoryStats and GetWishlistStats return an empty/default
\* response and no error.
C8_ReadPathsAvailable ==
    \A p \in Procs :
        (/\ proc[p].op \in {"GetStats", "GetCategoryStats", "GetWishlistStats"}
         /\ proc[p].pc = "ret"
         /\ proc[p].rsReturned = "err"
         /\ cache = NewStatsCache)
            => (proc[p].err = "nil" /\ ~proc[p].resNil)

\* C9: whatever the writes of Broadcast do, a cycle whose sources all
\* succeeded returns no error and the cache holds the values of that cycle.
C9_NotifyNeverFailsRefresh ==
    \A p \in Procs :
        proc[p].pc \in {"rs_bwrite", "rs_ret"}
            => (proc[p].retErr = "nil" /\ AllSeven(proc[p]))

C9_Witness ==
    \E p \in Procs : proc[p].pc = "rs_ret" /\ proc[p].writeErrs > 0

\* C10: when the context of a RefreshStats is cancelled, the cache at the
\* return is either as it was when the cycle began or holds all seven items
\* of the cycle.
C10_CancelNeverPartial ==
    \A p \in Procs :
        (proc[p].ctx = "cancelled" /\ proc[p].pc \in {"rs_fail", "rs_ret"})
            => (cache = proc[p].before \/ AllSeven(proc[p]))

C10_Witness ==
    \E p \in Procs : /\ proc[p].ctx = "cancelled"
                     /\ proc[p].pc = "rs_ret"
                     /\ cache # proc[p].before

\* C11: the refresh loop is self-healing -- after a tick whose RefreshStats
\* returned an error the loop goes on, and the next tick calls RefreshStats
\* again.
C11_LoopSelfHealing ==
    (proc[Scheduler].pc = "ret" /\ proc[Scheduler].err # "nil")
        ~> (proc[Scheduler].pc = "rs_lock")

C11_Witness ==
    /\ proc[Scheduler].pc = "rs_lock"
    /\ cycle >= 1
    /\ lastRefresh = ZeroTime
    /\ proc[Scheduler].nRefresh = 1

\* the positions of the entry for id in a result list
EntriesOf(list, field, id) == {i \in 1..Len(list) : list[i][field] = id}

\* C12: GetCategoryStats returns one entry per cached category count; an
\* entry whose ID matches a category of the collaborator's list has that
\* category's name, every other entry has the name "Unknown", each count is the
\* cached count, and the call fails only when the collaborator fails.
C12_UnknownCategoryName ==
    \A p \in Handlers :
        (proc[p].op = "GetCategoryStats" /\ proc[p].pc = "ret"
            /\ DOMAIN cache.categoryCounts # {})
            => /\ proc[p].categoriesErr = "nil" => proc[p].err = "nil"
               /\ proc[p].err = "nil" =>
                    LET cats == proc[p].categories
                        res == proc[p].resList
                    IN /\ Len(res) = Cardinality(DOMAIN cache.categoryCounts)
                       /\ \A id \in DOMAIN cache.categoryCounts :
                            \E i \in 1..Len(res) :
                              /\ res[i].CategoryID = id
                              /\ res[i].ProductCount = cache.categoryCounts[id]
                              /\ IF \E j \in 1..Len(cats) : cats[j].ID = id
                                 THEN \E j \in 1..Len(cats) :
                                        cats[j].ID = id /\ cats[j].Name = res[i].CategoryName
                                 ELSE res[i].CategoryName = "Unknown"

C12_Witness ==
    \E p \in Handlers :
        /\ proc[p].op = "GetCategoryStats" /\ proc[p].pc = "ret" /\ proc[p].err = "nil"
        /\ Len(proc[p].resList) = 2
        /\ \E i, j \in 1..2 : /\ proc[p].resList[i].CategoryName = "Unknown"
                               /\ proc[p].resList[j].CategoryName = "Electronics"

\* C13: GetWishlistStats returns no error and exactly one entry for each
\* cached product whose lookup returned a product, with that product's name
\* and the cached count, and no entry for any other product, in every
\* interleaving of the lookup goroutines.
C13_WishlistOnePerFound ==
    \A p \in Handlers :
        (proc[p].op = "GetWishlistStats" /\ proc[p].pc = "ret"
            /\ DOMAIN cache.wishlistCounts # {})
            => /\ proc[p].err = "nil"
               /\ Len(proc[p].resList) = Cardinality(proc[p].found)
               /\ \A id \in DOMAIN ProductNames :
                    LET hits == EntriesOf(proc[p].resList, "ProductID", id)
                    IN IF id \in proc[p].found
                       THEN /\ Cardinality(hits) = 1
                            /\ \A i \in hits :
                                 /\ proc[p].resList[i].ProductName = ProductNames[id]
                                 /\ proc[p].resList[i].WishlistCount
                                        = cache.wishlistCounts[id]
                       ELSE hits = {}

C13_Witness ==
    \E p \in Handlers :
        /\ proc[p].op = "GetWishlistStats" /\ proc[p].pc = "ret"
        /\ Cardinality(DOMAIN cache.wishlistCounts) = 2
        /\ Len(proc[p].resList) = 1
        /\ proc[p].resList[1].ProductID = 2

\* the step from a Clear to the GetAll that follows it
ClearThenGetAll == cl.op = "Clear" /\ cl'.op = "GetAll"

\* C14 as stated: Clear followed immediately by GetAll returns no metric
\* entry and a last_refreshed field equal to the time of the Clear, and both
\* count maps are then empty.
C14_ClearThenGetAllExactTime ==
    [][ClearThenGetAll =>
         /\ DOMAIN cl'.res = {"last_refreshed"}
         /\ cl'.res["last_refreshed"] * TicksPerSecond = cl.at
         /\ GetCategoryCounts(cache') = EmptyMap
         /\ GetWishlistCounts(cache') = EmptyMap]_vars

\* C14 amended: Clear followed immediately by GetAll returns no metric entry
\* and a last_refreshed field that names the whole second in which the Clear
\* was made (RFC 3339 without the sub-second part), and both count maps are
\* then empty.
C14_ClearThenGetAll ==
    [][ClearThenGetAll =>
         /\ DOMAIN cl'.res = {"last_refreshed"}
         /\ cl'.res["last_refreshed"] * TicksPerSecond <= cl.at
         /\ cl.at < (cl'.res["last_refreshed"] + 1) * TicksPerSecond
         /\ GetCategoryCounts(cache') = EmptyMap
         /\ GetWishlistCounts(cache') = EmptyMap]_vars

C14_Witness ==
    /\ cl.op = "GetAll"
    /\ cl.afterClear
    /\ cl.wrote
    /\ DOMAIN cl.res = {"last_refreshed"}
    /\ cl.res["last_refreshed"] * TicksPerSecond < cache.lastRefreshed

\* C15: changing a map that was passed to SetCategoryCounts or
\* SetWishlistCounts, or that GetCategoryCounts, GetWishlistCounts or GetAll
\* returned, changes the result of no cache read.
C15_MapsNotShared ==
    [][cl'.op = "Mutate" =>
         /\ GetAll(cache') = GetAll(cache)
         /\ GetCategoryCounts(cache') = GetCategoryCounts(cache)
         /\ GetWishlistCounts(cache') = GetWishlistCounts(cache)
         /\ \A key \in DataKeys : Get(cache', key) = Get(cache, key)
         /\ GetLastRefreshed(cache') = GetLastRefreshed(cache)]_vars

C15_Witness ==
    /\ cl.op = "Mutate"
    /\ cl.from = "SetCategoryCounts"
    /\ cl.held # cache.categoryCounts
    /\ DOMAIN cache.categoryCounts # {}

\* C16: after every write of the cache lastRefreshed is the time of that
\* write, no read changes lastRefreshed or a cached value, and lastRefreshed
\* is the zero time until the first write.
C16_WritesStampReadsDoNot ==
    /\ [](cl.op \in WriteOps => cache.lastRefreshed = cl.at)
    /\ [](~cl.wrote => cache.lastRefreshed = ZeroTime)
    /\ [][cl'.op \in ReadOps => cache' = cache]_vars

C16_Witness ==
    /\ cl.op = "SetWishlistCounts"
    /\ cache.lastRefreshed = now
    /\ now > StartTime
    /\ Exists(cache, "total_products")

\* C17: the statistics endpoints are admin-only -- a stats handler is
\* reached only by a request whose authenticated role is "admin", and a
\* request to a stats route with another authenticated role ends with 403.
C17_StatsAdminOnly ==
    /\ req.reached \in StatsHandlers => req.ctxRole = "admin"
    /\ (req.pc = "done" /\ req.chain # <<>>
            /\ req.chain[Len(req.chain)] \in StatsHandlers
            /\ req.ctxRole \notin {"", "admin"})
          => req.status = 403

\* the elements of a sequence
Range(seq) == {seq[i] : i \in 1..Len(seq)}

Greatest(S) == CHOOSE x \in S : \A y \in S : x >= y

\* C18: the tool run with --down and without --migration reverts exactly one
\* migration, the applied one with the greatest name, removes it from the
\* migrations table and leaves every other applied migration applied (stated
\* of the runs in which that migration has its _down file).
C18_DownRollsBackLatestOnly ==
    (mig.pc = "exited" /\ mig.down /\ mig.migrationID = 0 /\ mig.exit = "ok"
        /\ Greatest(mig.before) \in mig.downFiles)
        => /\ mig.log = <<Greatest(mig.before)>>
           /\ mig.applied = mig.before \ {Greatest(mig.before)}

\* what C19 says of a run without --down
UpRunApplied ==
    /\ mig.schema = mig.applied
    /\ mig.applied = mig.before \cup Range(mig.log)
    /\ \A i, j \in 1..Len(mig.log) : i < j => mig.log[i] < mig.log[j]
    /\ Range(mig.log) \cap mig.before = {}
    /\ mig.exit = "fatal" => mig.failed \notin mig.applied
    /\ mig.exit \in {"ok", "none"} => \A n \in 1..mig.nFiles : n \in mig.applied
    /\ (\A n \in 1..mig.nFiles : n \in mig.before) => mig.log = <<>>

\* C19 as stated: a run without --down applies every migration that is not
\* in the migrations table, in ascending name order, each once and recorded
\* with its SQL; a second run applies nothing; a migration whose SQL fails is
\* not recorded.
C19_UpAppliesAllPending ==
    (mig.pc = "exited" /\ ~mig.down) => UpRunApplied

\* C19 amended: the same of a run without --down and without --migration.
C19_UpWithoutMigrationFlag ==
    (mig.pc = "exited" /\ ~mig.down /\ mig.migrationID = 0) => UpRunApplied

C19_Witness ==
    /\ mig.pc = "exited" /\ ~mig.down /\ mig.migrationID = 0 /\ mig.exit = "ok"
    /\ mig.before = {2}
    /\ mig.log = <<1, 3>>

\* C20: a refresh cycle calls Broadcast exactly once when all its sources
\* succeeded, after the seven cache writes of the cycle, and not at all when
\* a source failed.
C20_NotifyOncePerSuccess ==
    \A p \in Procs :
        /\ proc[p].published > 0
              => /\ proc[p].pc \in {"rs_bwrite", "rs_ret"}
                 /\ proc[p].wi = 7
                 /\ AllSeven(proc[p])
                 /\ ~AnySourceFailed(proc[p])
        /\ proc[p].pc = "rs_ret" => proc[p].published = 1
        /\ proc[p].pc = "rs_fail" => proc[p].published = 0

C20_Witness ==
    \E p, q \in Procs :
        /\ proc[p].pc = "rs_ret" /\ proc[p].published = 1 /\ proc[p].cyc = 2
        /\ proc[p].todo = {} /\ clients # {}
        /\ proc[q].pc = "rs_lock"

\* C21: publishing is fire-and-forget for the refresh cycle: whatever the
\* subscribers do, also when a write to one of them never completes, a
\* RefreshStats that has taken the refresh lock returns and releases it
C21_BlockedWriteDoesNotHoldRefresh ==
    (mutex = Scheduler) ~> (mutex = None)

\* C22: every refresh cycle runs under a deadline: also when a source call
\* never returns on its own, a cycle of the refresh loop that has started its
\* source calls ends and releases the refresh lock
C22_CycleEndsUnderDeadline ==
    (proc[Scheduler].pc = "rs_fan") ~> (mutex = None)

\* C23: the refresh loop stops on shutdown: once shutdown has begun, the loop
\* comes to its end, after which it issues no RefreshStats call
C23_LoopStopsOnShutdown ==
    shutdown ~> (proc[Scheduler].pc = "stopped")

\* C24: a list passed to Set or returned by Get or GetAll is not shared with
\* the cache: when the caller changes an element of the list it holds, Get
\* of top_products (which is what GetTopProducts returns) and GetAll return
\* what they returned before
C24_ListsNotShared ==
    [][cl'.op = "MutateList" =>
         /\ Get(cache', ListKey) = Get(cache, ListKey)
         /\ GetAll(cache') = GetAll(cache)]_vars

\* C25: GetCategoryStats returns its entries in a defined order: a call whose
\* category counts and category list are those of an earlier call returns
\* the sequence of entries the earlier call returned
C25_CategoryStatsOrdered ==
    \A p \in Handlers :
        (/\ proc[p].pc = "ret"
         /\ proc[p].op = "GetCategoryStats"
         /\ proc[p].err = "nil"
         /\ prevStats.valid
         /\ prevStats.counts = proc[p].counts
         /\ prevStats.categories = proc[p].categories)
        => proc[p].resList = prevStats.list

\* C26: a GetStats caller that found the snapshot stale and had to wait for
\* the refresh lock executes no aggregation cycle of its own when the
\* refresh it waited for has made the snapshot fresh: it takes the lock for a
\* cycle only while the snapshot is still stale
C26_NoRecomputePerCaller ==
    [][\A p \in Handlers :
          (/\ proc[p].op = "GetStats"
           /\ proc[p].pc = "rs_lock"
           /\ proc'[p].pc = "rs_fan")
          => NeedsRefresh(lastRefresh, now)]_vars

\* C27: after Clear the next GetStats call refreshes before it serves: a
\* staleness check made while the cache is as Clear left it sends the call
\* to RefreshStats
C27_ClearForcesRefresh ==
    [][\A p \in Handlers :
          (/\ proc[p].pc = "gs_check"
           /\ proc'[p].pc # "gs_check"
           /\ cl.op = "Clear"
           /\ cache = Clear(cache, cl.at))
          => proc'[p].pc = "rs_lock"]_vars

\* the call of p is at its first read of the count map and the map is empty
ReadsEmptyMap(p) ==
    \/ proc[p].pc = "gc_read" /\ DOMAIN cache.categoryCounts = {}
    \/ proc[p].pc = "gw_read" /\ DOMAIN cache.wishlistCounts = {}

\* C28: GetCategoryStats and GetWishlistStats call RefreshStats at most once
\* per call, and a step of such a call starts a refresh exactly when it is
\* the first read of the count map and finds the map empty, however the map
\* came to be empty
C28_RefreshExactlyWhenEmpty ==
    /\ [](\A p \in Handlers : proc[p].op \in ReaderOps => proc[p].nRefresh <= 1)
    /\ [][\A p \in Handlers :
             (proc[p].op \in ReaderOps /\ proc'[p] # proc[p])
             => ((proc'[p].nRefresh > proc[p].nRefresh) <=> ReadsEmptyMap(p))]_vars

\* GetCategoryStats is in a cycle of its own, past the sources and about to
\* write, although the refresh before it succeeded: that refresh had
\* produced the empty map
C28_Witness ==
    \E p \in Handlers :
        /\ proc[p].op = "GetCategoryStats"
        /\ proc[p].pc = "rs_set"
        /\ proc[p].nRefresh = 1
        /\ proc[p].cyc = 2
        /\ lastRefresh # ZeroTime
        /\ writtenBy["category_counts"] = 1
        /\ DOMAIN cache.categoryCounts = {}

\* C29: the rate limiter keeps one limiter per client IP: all GetLimiter
\* calls for one address, in every interleaving, return the same limiter
C29_OneLimiterPerIP ==
    \A ip \in ClientIPs : Cardinality(lim.returned[ip]) <= 1

\* C30: while Broadcast runs, the connections written to so far and those
\* still to come are together the subscribers registered when it was called,
\* each connection is written to once, failed writes or not, so that at the
\* end of the loop every registered subscriber had one attempt and no other
\* connection had any; the registry changes only while no Broadcast holds
\* hub.mu, and the loop runs only while its Broadcast holds it
C30_BroadcastOncePerSubscriber ==
    /\ [](\A p \in Procs : proc[p].pc = "rs_bwrite" =>
            /\ hubMu = p
            /\ (DOMAIN proc[p].sent) \cup proc[p].todo = clients
            /\ (DOMAIN proc[p].sent) \cap proc[p].todo = {}
            /\ \A c \in DOMAIN proc[p].sent : proc[p].sent[c] = 1)
    /\ [][clients' # clients => hubMu = None /\ hubMu' = None]_vars

\* the loop of a Broadcast to two subscribers is over, and a write failed
C30_Witness ==
    \E p \in Procs :
        /\ proc[p].pc = "rs_bwrite"
        /\ proc[p].todo = {}
        /\ Cardinality(clients) = 2
        /\ DOMAIN proc[p].sent = clients
        /\ proc[p].writeErrs >= 1

====
